---- MODULE Spec2Model ----
(***************************************************************************)
(* Welford variance estimator of src/src/variance_estimator.rs and the     *)
(* fold / reduce drivers that use it (tests::test_concurrent_accumulate,   *)
(* test_monte_carlo_integration in src/src/main.rs).                       *)
(*                                                                         *)
(* f64 values are modelled as extended rationals: a record [n, d] in       *)
(* lowest terms with d > 0 is the real n/d, d = 0 holds the IEEE specials  *)
(* (+inf = 1/0, -inf = -1/0, NaN = 0/0).  The arithmetic is exact: the     *)
(* rounding of f64 is not modelled, so every equality below is an equality *)
(* of real numbers, not of bit patterns.  Signed zero is not modelled: the *)
(* only divisors the code can make zero are i64 values cast to f64, which  *)
(* are +0.0.                                                               *)
(***************************************************************************)
EXTENDS Integers, Sequences, FiniteSets, Bags

VARIABLES
    pool,        \* the live estimators, a bag of [ve, hist, merged]
    sequential   \* one estimator that ingests every drawn sample in draw order

vars == <<pool, sequential>>

----------------------------------------------------------------------------
(* Bounds *)

MaxSamples == 4     \* samples drawn in one run
MaxPool == 3        \* estimators alive at once (workers / reduce identities)

----------------------------------------------------------------------------
(* f64 arithmetic *)

Abs(i) == IF i < 0 THEN -i ELSE i

Sign(i) == IF i > 0 THEN 1 ELSE IF i < 0 THEN -1 ELSE 0

RECURSIVE GCD(_, _)
GCD(a, b) == IF b = 0 THEN a ELSE GCD(b, a % b)

\* the f64 value num/den, in lowest terms with a positive denominator
F64(num, den) ==
    IF den = 0 THEN [n |-> Sign(num), d |-> 0]
    ELSE LET g == GCD(Abs(num), Abs(den))
         IN  [n |-> (Sign(den) * num) \div g, d |-> Abs(den) \div g]

Zero == F64(0, 1)
NaN == F64(0, 0)

IsNaN(a) == a.d = 0 /\ a.n = 0
IsInf(a) == a.d = 0 /\ a.n # 0
IsFinite(a) == a.d > 0

\* `as f64` of an i64
AsF64(i) == F64(i, 1)

FNeg(a) == [n |-> -a.n, d |-> a.d]

FAdd(a, b) ==
    IF IsNaN(a) \/ IsNaN(b) THEN NaN
    ELSE IF IsInf(a) /\ IsInf(b) THEN (IF a.n = b.n THEN a ELSE NaN)
    ELSE IF IsInf(a) THEN a
    ELSE IF IsInf(b) THEN b
    ELSE F64(a.n * b.d + b.n * a.d, a.d * b.d)

FSub(a, b) == FAdd(a, FNeg(b))

FMul(a, b) ==
    IF IsNaN(a) \/ IsNaN(b) THEN NaN
    ELSE IF IsInf(a) \/ IsInf(b) THEN F64(Sign(a.n) * Sign(b.n), 0)
    ELSE F64(a.n * b.n, a.d * b.d)

FDiv(a, b) ==
    IF IsNaN(a) \/ IsNaN(b) THEN NaN
    ELSE IF IsInf(a) THEN (IF IsInf(b) THEN NaN
                           ELSE F64(a.n * (IF b.n < 0 THEN -1 ELSE 1), 0))
    ELSE IF IsInf(b) THEN Zero
    ELSE F64(a.n * b.d, a.d * b.n)

\* the f64 operator ==
FEq(a, b) == ~IsNaN(a) /\ ~IsNaN(b) /\ a = b

\* a >= 0.0
FGeZero(a) == ~IsNaN(a) /\ a.n >= 0

----------------------------------------------------------------------------
(* VarianceEstimator *)

new == [mean |-> Zero, sum_square_differences |-> Zero, sample_count |-> 0]

\* add_sample with the second factor taken before the mean moves
add_sample_DeltaSquared(self, x) ==
    LET sample_count == self.sample_count + 1
        delta == FSub(x, self.mean)
        mean == FAdd(self.mean, FDiv(delta, AsF64(sample_count)))
    IN  [mean |-> mean,
         sum_square_differences |->
             FAdd(self.sum_square_differences, FMul(delta, delta)),
         sample_count |-> sample_count]

\* add_sample dividing by the count from before the increment
add_sample_DivideByOldCount(self, x) ==
    LET sample_count == self.sample_count + 1
        delta == FSub(x, self.mean)
        mean == FAdd(self.mean, FDiv(delta, AsF64(self.sample_count)))
        delta2 == FSub(x, mean)
    IN  [mean |-> mean,
         sum_square_differences |->
             FAdd(self.sum_square_differences, FMul(delta, delta2)),
         sample_count |-> sample_count]

\* add_sample with delta2 = mean - x
add_sample_Delta2Flipped(self, x) ==
    LET sample_count == self.sample_count + 1
        delta == FSub(x, self.mean)
        mean == FAdd(self.mean, FDiv(delta, AsF64(sample_count)))
        delta2 == FSub(mean, x)
    IN  [mean |-> mean,
         sum_square_differences |->
             FAdd(self.sum_square_differences, FMul(delta, delta2)),
         sample_count |-> sample_count]

add_sample(self, x) ==
    LET sample_count == self.sample_count + 1
        delta == FSub(x, self.mean)
        mean == FAdd(self.mean, FDiv(delta, AsF64(sample_count)))
        delta2 == FSub(x, mean)
    IN  [mean |-> mean,
         sum_square_differences |->
             FAdd(self.sum_square_differences, FMul(delta, delta2)),
         sample_count |-> sample_count]

\* variance guarded by sample_count > 0
variance_GuardAtZero(self) ==
    IF self.sample_count > 0
    THEN FDiv(self.sum_square_differences, AsF64(self.sample_count - 1))
    ELSE Zero

variance(self) ==
    IF self.sample_count > 1
    THEN FDiv(self.sum_square_differences, AsF64(self.sample_count - 1))
    ELSE Zero

\* relative_variance without the zero-mean guard
relative_variance_NoZeroMeanGuard(self) ==
    IF self.sample_count < 1
    THEN Zero
    ELSE FDiv(variance(self), self.mean)

relative_variance(self) ==
    IF self.sample_count < 1 \/ FEq(self.mean, Zero)
    THEN Zero
    ELSE FDiv(variance(self), self.mean)

\* merge that adds the two sums of squares and nothing else
merge_NoCrossTerm(lhs, rhs) ==
    IF rhs.sample_count = 0 THEN lhs
    ELSE
    LET left_sample_count_f64 == AsF64(lhs.sample_count)
        right_sample_count_f64 == AsF64(rhs.sample_count)
        sample_count == lhs.sample_count + rhs.sample_count
        sqr_mean_diff == FMul(FSub(rhs.mean, lhs.mean), FSub(rhs.mean, lhs.mean))
        sum_square_differences ==
            FAdd(lhs.sum_square_differences, rhs.sum_square_differences)
        mean == FDiv(FAdd(FMul(left_sample_count_f64, lhs.mean),
                          FMul(right_sample_count_f64, rhs.mean)),
                     AsF64(sample_count))
    IN  [mean |-> mean,
         sum_square_differences |-> sum_square_differences,
         sample_count |-> sample_count]

\* merge whose cross term weighs n_l * n_l instead of n_l * n_r
merge_CrossTermLeftSquared(lhs, rhs) ==
    IF rhs.sample_count = 0 THEN lhs
    ELSE
    LET left_sample_count_f64 == AsF64(lhs.sample_count)
        right_sample_count_f64 == AsF64(rhs.sample_count)
        sample_count == lhs.sample_count + rhs.sample_count
        sqr_mean_diff == FMul(FSub(rhs.mean, lhs.mean), FSub(rhs.mean, lhs.mean))
        sum_square_differences ==
            FAdd(FAdd(lhs.sum_square_differences, rhs.sum_square_differences),
                 FDiv(FMul(FMul(sqr_mean_diff, left_sample_count_f64),
                           left_sample_count_f64),
                      AsF64(sample_count)))
        mean == FDiv(FAdd(FMul(left_sample_count_f64, lhs.mean),
                          FMul(right_sample_count_f64, rhs.mean)),
                     AsF64(sample_count))
    IN  [mean |-> mean,
         sum_square_differences |-> sum_square_differences,
         sample_count |-> sample_count]

\* merge whose early return tests the left operand
merge_GuardOnLeft(lhs, rhs) ==
    IF lhs.sample_count = 0 THEN lhs
    ELSE
    LET left_sample_count_f64 == AsF64(lhs.sample_count)
        right_sample_count_f64 == AsF64(rhs.sample_count)
        sample_count == lhs.sample_count + rhs.sample_count
        sqr_mean_diff == FMul(FSub(rhs.mean, lhs.mean), FSub(rhs.mean, lhs.mean))
        sum_square_differences ==
            FAdd(FAdd(lhs.sum_square_differences, rhs.sum_square_differences),
                 FDiv(FMul(FMul(sqr_mean_diff, left_sample_count_f64),
                           right_sample_count_f64),
                      AsF64(sample_count)))
        mean == FDiv(FAdd(FMul(left_sample_count_f64, lhs.mean),
                          FMul(right_sample_count_f64, rhs.mean)),
                     AsF64(sample_count))
    IN  [mean |-> mean,
         sum_square_differences |-> sum_square_differences,
         sample_count |-> sample_count]

\* merge that returns the left operand's sample_count
merge_KeepLeftCount(lhs, rhs) ==
    IF rhs.sample_count = 0 THEN lhs
    ELSE
    LET left_sample_count_f64 == AsF64(lhs.sample_count)
        right_sample_count_f64 == AsF64(rhs.sample_count)
        sample_count == lhs.sample_count + rhs.sample_count
        sqr_mean_diff == FMul(FSub(rhs.mean, lhs.mean), FSub(rhs.mean, lhs.mean))
        sum_square_differences ==
            FAdd(FAdd(lhs.sum_square_differences, rhs.sum_square_differences),
                 FDiv(FMul(FMul(sqr_mean_diff, left_sample_count_f64),
                           right_sample_count_f64),
                      AsF64(sample_count)))
        mean == FDiv(FAdd(FMul(left_sample_count_f64, lhs.mean),
                          FMul(right_sample_count_f64, rhs.mean)),
                     AsF64(sample_count))
    IN  [mean |-> mean,
         sum_square_differences |-> sum_square_differences,
         sample_count |-> lhs.sample_count]

\* merge without the early return
merge_NoEarlyReturn(lhs, rhs) ==
    LET left_sample_count_f64 == AsF64(lhs.sample_count)
        right_sample_count_f64 == AsF64(rhs.sample_count)
        sample_count == lhs.sample_count + rhs.sample_count
        sqr_mean_diff == FMul(FSub(rhs.mean, lhs.mean), FSub(rhs.mean, lhs.mean))
        sum_square_differences ==
            FAdd(FAdd(lhs.sum_square_differences, rhs.sum_square_differences),
                 FDiv(FMul(FMul(sqr_mean_diff, left_sample_count_f64),
                           right_sample_count_f64),
                      AsF64(sample_count)))
        mean == FDiv(FAdd(FMul(left_sample_count_f64, lhs.mean),
                          FMul(right_sample_count_f64, rhs.mean)),
                     AsF64(sample_count))
    IN  [mean |-> mean,
         sum_square_differences |-> sum_square_differences,
         sample_count |-> sample_count]

merge(lhs, rhs) ==
    IF rhs.sample_count = 0 THEN lhs
    ELSE
    LET left_sample_count_f64 == AsF64(lhs.sample_count)
        right_sample_count_f64 == AsF64(rhs.sample_count)
        sample_count == lhs.sample_count + rhs.sample_count
        sqr_mean_diff == FMul(FSub(rhs.mean, lhs.mean), FSub(rhs.mean, lhs.mean))
        sum_square_differences ==
            FAdd(FAdd(lhs.sum_square_differences, rhs.sum_square_differences),
                 FDiv(FMul(FMul(sqr_mean_diff, left_sample_count_f64),
                           right_sample_count_f64),
                      AsF64(sample_count)))
        mean == FDiv(FAdd(FMul(left_sample_count_f64, lhs.mean),
                          FMul(right_sample_count_f64, rhs.mean)),
                     AsF64(sample_count))
    IN  [mean |-> mean,
         sum_square_differences |-> sum_square_differences,
         sample_count |-> sample_count]

----------------------------------------------------------------------------
(* Drivers: fold samples into private estimators, reduce them with merge *)

\* the values a trial can produce
SampleValues == {F64(-1, 1), F64(0, 1), F64(1, 1)}

\* a worker's private estimator: ve is the VarianceEstimator value, hist the
\* samples folded into it so far, merged whether a merge produced it
Estimator(ve, hist, merged) == [ve |-> ve, hist |-> hist, merged |-> merged]

Live == BagToSet(pool)

Init ==
    /\ pool = EmptyBag
    /\ sequential = new

\* a worker's fold identity, a thread-local cell, or a reduce identity
NewEstimator ==
    /\ BagCardinality(pool) < MaxPool
    /\ pool' = pool (+) SetToBag({Estimator(new, << >>, FALSE)})
    /\ UNCHANGED sequential

\* the owner of estimator e folds one sample into it
AddSample(e, x) ==
    /\ sequential.sample_count < MaxSamples
    /\ pool' = (pool (-) SetToBag({e}))
                   (+) SetToBag({Estimator(add_sample(e.ve, x), Append(e.hist, x), e.merged)})
    /\ sequential' = add_sample(sequential, x)

\* one step of the reduction: estimators l and r are consumed, merge(l, r) stays
Merge(l, r) ==
    /\ l # r \/ CopiesIn(l, pool) >= 2
    /\ pool' = ((pool (-) SetToBag({l})) (-) SetToBag({r}))
                   (+) SetToBag({Estimator(merge(l.ve, r.ve), l.hist \o r.hist, TRUE)})
    /\ UNCHANGED sequential

Next ==
    \/ NewEstimator
    \/ \E e \in Live, x \in SampleValues : AddSample(e, x)
    \/ \E l \in Live, r \in Live : Merge(l, r)

Spec == Init /\ [][Next]_vars

----------------------------------------------------------------------------
(* Reference quantities, computed from the sample history alone *)

RECURSIVE Sum(_)
Sum(s) == IF s = << >> THEN Zero ELSE FAdd(Sum(Tail(s)), Head(s))

ArithmeticMean(s) == FDiv(Sum(s), AsF64(Len(s)))

RECURSIVE SquaredDeviations(_, _)
SquaredDeviations(s, m) ==
    IF s = << >> THEN Zero
    ELSE FAdd(SquaredDeviations(Tail(s), m),
              FMul(FSub(Head(s), m), FSub(Head(s), m)))

\* a fresh estimator after add_sample of every element of s, in order
RECURSIVE Ingest(_, _)
Ingest(ve, s) == IF s = << >> THEN ve ELSE Ingest(add_sample(ve, Head(s)), Tail(s))

SameStatistics(a, b) ==
    /\ a.sample_count = b.sample_count
    /\ a.mean = b.mean
    /\ a.sum_square_differences = b.sum_square_differences

IsConstant(s) == \A k \in DOMAIN s : s[k] = s[1]

RECURSIVE TotalCount(_)
TotalCount(b) ==
    IF b = EmptyBag THEN 0
    ELSE LET e == CHOOSE v \in BagToSet(b) : TRUE
         IN  e.ve.sample_count + TotalCount(b (-) SetToBag({e}))

----------------------------------------------------------------------------
(* Claims *)

\* C1: merge(L, R) of two estimators built by add_sample alone from S_l and
\* S_r has the sample_count, mean, sum_square_differences and variance() of
\* one fresh estimator that ingested S_l followed by S_r.
C1_MergeEqualsSequentialIngest ==
    \A l \in Live, r \in Live :
        (~l.merged /\ ~r.merged) =>
            \A m \in {merge(l.ve, r.ve)}, s \in {Ingest(new, l.hist \o r.hist)} :
                /\ SameStatistics(m, s)
                /\ variance(m) = variance(s)

C1_Witness ==
    \E l \in Live, r \in Live :
        /\ ~l.merged /\ ~r.merged
        /\ Len(l.hist) >= 2 /\ Len(r.hist) >= 2
        /\ l.ve.mean # r.ve.mean
        /\ l.ve.sum_square_differences # Zero
        /\ variance(merge(l.ve, r.ve)) # Zero

\* C2: merge is commutative and associative on reachable estimators, empty
\* ones included.
C2_MergeCommutativeAssociative ==
    \A a \in Live, b \in Live :
        \A ab \in {merge(a.ve, b.ve)} :
            /\ SameStatistics(ab, merge(b.ve, a.ve))
            /\ \A c \in Live :
                   \A bc \in {merge(b.ve, c.ve)} :
                       SameStatistics(merge(ab, c.ve), merge(a.ve, bc))

C2_Witness ==
    \E a \in Live, b \in Live, c \in Live :
        /\ a.ve.sample_count = 0
        /\ b.ve.sample_count >= 1
        /\ c.ve.sample_count >= 2
        /\ b.ve.mean # c.ve.mean
        /\ c.ve.sum_square_differences # Zero

C4_WelfordClosedForm ==
    \A e \in Live :
        (~e.merged /\ e.hist # << >>) =>
            /\ e.ve.sample_count = Len(e.hist)
            /\ e.ve.mean = ArithmeticMean(e.hist)
            /\ e.ve.sum_square_differences =
                   SquaredDeviations(e.hist, ArithmeticMean(e.hist))

C4_Witness ==
    \E e \in Live :
        /\ ~e.merged
        /\ Len(e.hist) >= 3
        /\ ~IsConstant(e.hist)
        /\ e.ve.mean.d > 1

C6_VarianceContract ==
    \A e \in Live :
        /\ e.ve.sample_count > 1 =>
               /\ variance(e.ve) = FDiv(e.ve.sum_square_differences,
                                        AsF64(e.ve.sample_count - 1))
               /\ variance(e.ve) =
                      FDiv(SquaredDeviations(e.hist, ArithmeticMean(e.hist)),
                           AsF64(Len(e.hist) - 1))
        /\ e.ve.sample_count <= 1 => variance(e.ve) = Zero
        /\ IsFinite(variance(e.ve))

C6_Witness ==
    /\ \E e \in Live : e.ve.sample_count = 0
    /\ \E e \in Live : e.ve.sample_count = 1 /\ e.ve.mean # Zero
    /\ \E e \in Live : e.ve.sample_count > 1 /\ variance(e.ve) # Zero

\* C7: relative_variance() is variance() / mean with at least one sample and
\* a non-zero mean, and 0 otherwise; it never divides by a zero mean.
C7_RelativeVarianceContract ==
    \A e \in Live :
        /\ (e.ve.sample_count >= 1 /\ e.ve.mean # Zero) =>
               relative_variance(e.ve) = FDiv(variance(e.ve), e.ve.mean)
        /\ (e.ve.sample_count < 1 \/ e.ve.mean = Zero) =>
               relative_variance(e.ve) = Zero
        /\ IsFinite(relative_variance(e.ve))

C7_Witness ==
    /\ \E e \in Live :
           /\ e.ve.sample_count >= 2
           /\ e.ve.mean = Zero
           /\ variance(e.ve) # Zero
    /\ \E e \in Live :
           /\ e.ve.mean # Zero
           /\ relative_variance(e.ve) # Zero

\* C8: after any number k >= 1 of add_sample(c) on a fresh estimator, mean is
\* c, sum_square_differences is 0, variance() and relative_variance() are 0.
C8_ConstantStream ==
    \A e \in Live :
        (~e.merged /\ e.hist # << >> /\ IsConstant(e.hist)) =>
            /\ e.ve.mean = e.hist[1]
            /\ e.ve.sum_square_differences = Zero
            /\ variance(e.ve) = Zero
            /\ relative_variance(e.ve) = Zero

C8_Witness ==
    \E e \in Live :
        /\ ~e.merged
        /\ Len(e.hist) >= 3
        /\ IsConstant(e.hist)
        /\ e.hist[1] = F64(-1, 1)

\* C9: sample_count is never negative, an estimator without samples is the
\* identity value (mean 0, sum_square_differences 0, variance() 0,
\* relative_variance() 0), and merge of two empty estimators is that value.
C9_EmptyIsIdentityValue ==
    \A e \in Live :
        /\ e.ve.sample_count >= 0
        /\ e.ve.sample_count = 0 =>
               /\ e.ve.mean = Zero
               /\ e.ve.sum_square_differences = Zero
               /\ variance(e.ve) = Zero
               /\ relative_variance(e.ve) = Zero
               /\ \A f \in Live :
                      f.ve.sample_count = 0 => merge(e.ve, f.ve) = new

C9_Witness ==
    /\ \E e \in Live : e.merged /\ e.ve.sample_count = 0
    /\ \E e \in Live : ~e.merged /\ e.ve.sample_count = 0
    /\ \E e \in Live : e.ve.sample_count > 0

\* C10: sum_square_differences, and with it variance(), is never negative.
C10_SumSquareDifferencesNonNegative ==
    \A e \in Live :
        /\ FGeZero(e.ve.sum_square_differences)
        /\ FGeZero(variance(e.ve))

C10_Witness ==
    \E e \in Live :
        /\ e.merged
        /\ Len(e.hist) = MaxSamples
        /\ e.ve.sum_square_differences.n > 0
        /\ e.ve.mean.n < 0

====
